---- MODULE Spec2Model ----
(***************************************************************************)
(* Model of the ComfyUI model downloader (download_models.py, the "full"   *)
(* variant, and download_models_portable.py, the "portable" variant):      *)
(* the manifest merge engine (ModelManifest), the transfer executor        *)
(* (download_file and its transports) and the plan runner.                 *)
(*                                                                         *)
(* Strings are sequences of one-letter strings, so that str.lower() and    *)
(* the hex digest comparison are computed and not assumed.  Python's None  *)
(* is the sentinel None, which is no string of the alphabet.               *)
(***************************************************************************)
EXTENDS Integers, Sequences, FiniteSets, TLC

\* ---------------------------------------------------------------- bounds
\* Manifest entries (models and nodes together) read in one run.
MaxEntries == 3
\* Manifest sources given on the command line.
MaxSources == 2
\* Length in bytes of the longest file content.
MaxSize == 2
\* Times the process is started (restarted after being killed).
MaxRuns == 2

\* ---------------------------------------------------------------- values
None == <<"<None>">>

\* `not v` for an optional string: None and the empty string are falsy.
Falsy(v) == v = None \/ v = <<>>

LowerChar(c) ==
    CASE c = "A" -> "a"
      [] c = "B" -> "b"
      [] c = "R" -> "r"
      [] c = "Q" -> "q"
      [] c = "C" -> "c"
      [] c = "D" -> "d"
      [] c = "E" -> "e"
      [] OTHER -> c

\* str.lower()
Lower(s) == [i \in DOMAIN s |-> LowerChar(s[i])]

\* dict[key] = value on a dict held as a function over its key set
Put(d, key, value) ==
    [k \in (DOMAIN d) \cup {key} |-> IF k = key THEN value ELSE d[k]]

EmptyDict == [k \in {} |-> None]

Model(name, url, type, path, filename, sha256) ==
    [name |-> name, url |-> url, type |-> type, path |-> path,
     filename |-> filename, sha256 |-> sha256]

Node(name, repo, path) == [name |-> name, repo |-> repo, path |-> path]

\* The model entries a manifest of the merge specification may hold: two whose
\* urls differ only in letter case, a third url, and one without url.
MergeModels ==
    { Model(<<"m","1">>, <<"a">>, <<"l">>, None, None, None),
      Model(<<"m","2">>, <<"A">>, <<"c">>, None, None, None),
      Model(<<"m","3">>, <<"b">>, <<"l">>, None, None, None),
      Model(<<"m","4">>, None,    <<"l">>, None, None, None) }

\* The node entries: two repos differing only in case, and one entry whose
\* repo is the empty string.
MergeNodes ==
    { Node(<<"n","1">>, <<"r">>, None),
      Node(<<"n","2">>, <<"R">>, None),
      Node(<<"n","3">>, <<>>,    None) }

SourceIds == {"s1", "s2"}

\* All sequences over S of length at most n.
SeqsUpTo(S, n) == UNION { [1..k -> S] : k \in 0..n }

\* The manifest documents with at most n entries, models and nodes together.
Documents(cat, n) ==
    UNION { { [models |-> ms, custom_nodes |-> ns] :
                ns \in SeqsUpTo(cat.nodes, n - Len(ms)) } :
            ms \in SeqsUpTo(cat.models, n) }

VARIABLES
    variant,      \* "full" (download_models.py) or "portable"
    pc,           \* position of the single thread of control
    mm,           \* the ModelManifest object
    am,           \* add_manifest: arguments, loop position and local counters
    lm,           \* load_manifests: loop index and totals
    loadedDocs,   \* history: the documents that loaded, with their sources
    catalog,      \* the inputs of the specification (fixed by Init): the
                  \* entries and sources of manifests, the contents servers
                  \* send, whether filesystem calls may fail
    env,          \* the host: curl on PATH, requests importable, I/O may fail
    fs,           \* the filesystem: destination path -> content, or Absent
    df,           \* download_file: arguments, locals and history of the call
    hist,         \* history of the process: starts, and what a kill left
    dm            \* main and the plan runner: arguments, loop and counters

mergeVars == <<mm, am, lm, loadedDocs>>
fetchVars == <<env, fs, df, hist, dm>>
vars == <<variant, pc, mm, am, lm, loadedDocs, catalog, env, fs, df, hist, dm>>

\* ----------------------------------------------------- files and digests
\* A file's content is a sequence of bytes; Absent is a path with no file.
Bytes == {1, 2}
Absent == <<0>>
Contents == SeqsUpTo(Bytes, MaxSize)
\* A directory (a cloned repository) at a path.
Dir == <<3>>

HexChar(b) == IF b = 1 THEN "c" ELSE "d"

\* hashlib.sha256(...).hexdigest(): lowercase hex, never empty, and taken to
\* be free of collisions (distinct contents have distinct digests).
Sha256(content) == <<"e">> \o [i \in DOMAIN content |-> HexChar(content[i])]

UpperHexChar(c) ==
    CASE c = "c" -> "C" [] c = "d" -> "D" [] c = "e" -> "E" [] OTHER -> c

\* The same digest written in uppercase hex.
UpperHex(h) == [i \in DOMAIN h |-> UpperHexChar(h[i])]

\* Mutant: the digests are compared without regard to letter case.
VerifyHashIgnoringCase(file, expected_hash) ==
    Lower(Sha256(file)) = Lower(expected_hash)

\* verify_hash: the file's hex digest equals the expected one, case-sensitively.
VerifyHash(file, expected_hash) == Sha256(file) = expected_hash

\* The frame of one download_file call.  fileAtCall, transport,
\* transportCalls, destAtFetch, xferFile and io are history: the file at the
\* call, the transport invoked, the file when it was invoked, the file it
\* left, and whether a filesystem call raised.
NewCall(url, dest_path, expected_hash, file) ==
    [url |-> url, dest_path |-> dest_path, expected_hash |-> expected_hash,
     success |-> FALSE, result |-> FALSE,
     fileAtCall |-> file, transport |-> "none", transportCalls |-> 0,
     destAtFetch |-> Absent, xferFile |-> Absent, io |-> FALSE]

NoKill == <<9>>

NewHistory == [runs |-> 1, left |-> NoKill, killedIn |-> "none"]

\* The parsed command line: --types (empty when not given), --dry-run,
\* --models-only, --nodes-only, --list.
Args(types, dry_run, models_only, nodes_only, list) ==
    [types |-> types, dry_run |-> dry_run, models_only |-> models_only,
     nodes_only |-> nodes_only, list |-> list]

\* The record of one clone_repo call (history): the destination at the call,
\* whether git was invoked, the exit code it ended with, the result.
CloneCall(destAtCall, invoked, exit, result) ==
    [destAtCall |-> destAtCall, invoked |-> invoked, exit |-> exit,
     result |-> result]

NoClone == CloneCall(Absent, FALSE, 0, FALSE)

\* main and the runner before any phase: the loop's list and index, the
\* phase's counters, main's totals and the exit code; calls, failedCalls,
\* results and clone are history: the transfers called and those that
\* failed, how each entry of the running phase was counted (TRUE: success),
\* and the last clone_repo call.
NewRun(args) ==
    [args |-> args, items |-> <<>>, i |-> 1,
     success_count |-> 0, fail_count |-> 0,
     total_success |-> 0, total_fail |-> 0, exit_code |-> 0,
     phases |-> {}, calls |-> 0, failedCalls |-> 0,
     results |-> <<>>, clone |-> NoClone]

NoArgs == Args(<<>>, FALSE, FALSE, FALSE, FALSE)

\* ------------------------------------------------------- ModelManifest
\* ModelManifest.__init__
NewModelManifest ==
    [models |-> <<>>, custom_nodes |-> <<>>,
     seen_models |-> EmptyDict, seen_nodes |-> EmptyDict]

NewCounters(manifest, source) ==
    [manifest |-> manifest, source |-> source, j |-> 1, models_added |-> 0, models_skipped |-> 0,
     nodes_added |-> 0, nodes_skipped |-> 0]

NewTotals ==
    [i |-> 0, total_models |-> 0, total_models_skipped |-> 0,
     total_nodes |-> 0, total_nodes_skipped |-> 0]

\* Mutant: the duplicate key is the url as written, not lowercased.
AddModelEntryCaseSensitive(m, a, model) ==
    LET url == model.url IN
    IF Falsy(url) THEN [mm |-> m, am |-> a]
    ELSE IF url \in DOMAIN m.seen_models
         THEN [mm |-> m, am |-> [a EXCEPT !.models_skipped = @ + 1]]
         ELSE [mm |-> [m EXCEPT !.models = Append(@, model),
                                !.seen_models = Put(@, url, a.source)],
               am |-> [a EXCEPT !.models_added = @ + 1]]

\* Mutant: a duplicate replaces the recorded source and is appended again.
AddModelEntryLastWins(m, a, model) ==
    LET url == model.url IN
    IF Falsy(url) THEN [mm |-> m, am |-> a]
    ELSE LET key == Lower(url) IN
         IF key \in DOMAIN m.seen_models
         THEN [mm |-> [m EXCEPT !.models = Append(@, model),
                                !.seen_models = Put(@, key, a.source)],
               am |-> [a EXCEPT !.models_skipped = @ + 1]]
         ELSE [mm |-> [m EXCEPT !.models = Append(@, model),
                                !.seen_models = Put(@, key, a.source)],
               am |-> [a EXCEPT !.models_added = @ + 1]]

\* Mutant: a new entry is put at the head of the plan.
AddModelEntryPrepend(m, a, model) ==
    LET url == model.url IN
    IF Falsy(url) THEN [mm |-> m, am |-> a]
    ELSE LET key == Lower(url) IN
         IF key \in DOMAIN m.seen_models
         THEN [mm |-> m, am |-> [a EXCEPT !.models_skipped = @ + 1]]
         ELSE [mm |-> [m EXCEPT !.models = <<model>> \o @,
                                !.seen_models = Put(@, key, a.source)],
               am |-> [a EXCEPT !.models_added = @ + 1]]

\* Mutant: an entry without url is counted as a skipped duplicate.
AddModelEntryCountsMissing(m, a, model) ==
    LET url == model.url IN
    IF Falsy(url) THEN [mm |-> m, am |-> [a EXCEPT !.models_skipped = @ + 1]]
    ELSE LET key == Lower(url) IN
         IF key \in DOMAIN m.seen_models
         THEN [mm |-> m, am |-> [a EXCEPT !.models_skipped = @ + 1]]
         ELSE [mm |-> [m EXCEPT !.models = Append(@, model),
                                !.seen_models = Put(@, key, a.source)],
               am |-> [a EXCEPT !.models_added = @ + 1]]

\* Mutant: an entry without url is appended to the plan.
AddModelEntryKeepsMissing(m, a, model) ==
    LET url == model.url IN
    IF Falsy(url) THEN [mm |-> [m EXCEPT !.models = Append(@, model)], am |-> a]
    ELSE LET key == Lower(url) IN
         IF key \in DOMAIN m.seen_models
         THEN [mm |-> m, am |-> [a EXCEPT !.models_skipped = @ + 1]]
         ELSE [mm |-> [m EXCEPT !.models = Append(@, model),
                                !.seen_models = Put(@, key, a.source)],
               am |-> [a EXCEPT !.models_added = @ + 1]]

\* One iteration of add_manifest's loop over manifest['models'].
AddModelEntry(m, a, model) ==
    LET url == model.url IN
    IF Falsy(url) THEN [mm |-> m, am |-> a]
    ELSE LET key == Lower(url) IN
         IF key \in DOMAIN m.seen_models
         THEN [mm |-> m, am |-> [a EXCEPT !.models_skipped = @ + 1]]
         ELSE [mm |-> [m EXCEPT !.models = Append(@, model),
                                !.seen_models = Put(@, key, a.source)],
               am |-> [a EXCEPT !.models_added = @ + 1]]

\* One iteration of add_manifest's loop over manifest['custom_nodes'].
AddNodeEntry(m, a, node) ==
    LET repo == node.repo IN
    IF Falsy(repo) THEN [mm |-> m, am |-> a]
    ELSE LET key == Lower(repo) IN
         IF key \in DOMAIN m.seen_nodes
         THEN [mm |-> m, am |-> [a EXCEPT !.nodes_skipped = @ + 1]]
         ELSE [mm |-> [m EXCEPT !.custom_nodes = Append(@, node),
                                !.seen_nodes = Put(@, key, a.source)],
               am |-> [a EXCEPT !.nodes_added = @ + 1]]

\* Entries held by the documents loaded so far.
EntriesLoaded ==
    LET F[n \in 0..Len(loadedDocs)] ==
            IF n = 0 THEN 0
            ELSE F[n - 1] + Len(loadedDocs[n].manifest.models)
                          + Len(loadedDocs[n].manifest.custom_nodes)
    IN  F[Len(loadedDocs)]

\* load_manifests: the next source is read.  load_manifest returns None on
\* any error (unreachable, no such file, not JSON), and load_manifests then
\* goes on to the next source; a document that loads is handed to
\* add_manifest; a source whose JSON is a non-empty value that is no object
\* (an array, say) is handed to add_manifest too, whose manifest.get raises
\* AttributeError, which nothing catches: the process ends.
LoadManifest ==
    /\ pc = "lm_loop"
    /\ lm.i < MaxSources
    /\ \E source \in catalog.sources :
          \/ /\ lm' = [lm EXCEPT !.i = @ + 1]
             /\ pc' = "lm_loop"
             /\ UNCHANGED <<am, loadedDocs>>
          \/ /\ lm' = [lm EXCEPT !.i = @ + 1]
             /\ pc' = "lm_raised"
             /\ UNCHANGED <<am, loadedDocs>>
          \/ \E manifest \in Documents(catalog, catalog.entries - EntriesLoaded) :
                /\ lm' = [lm EXCEPT !.i = @ + 1]
                /\ pc' = "am_models"
                /\ am' = NewCounters(manifest, source)
                /\ loadedDocs' = Append(loadedDocs,
                       [source |-> source, manifest |-> manifest])
    /\ UNCHANGED <<variant, mm, catalog, fetchVars>>

\* add_manifest, models loop: one iteration, on the next model entry.
AddModelStep ==
    /\ pc = "am_models"
    /\ am.j <= Len(am.manifest.models)
    /\ LET r == AddModelEntry(mm, am, am.manifest.models[am.j]) IN
          /\ mm' = r.mm
          /\ am' = [r.am EXCEPT !.j = @ + 1]
    /\ UNCHANGED <<variant, pc, lm, loadedDocs, catalog, fetchVars>>

\* add_manifest: the models loop ends.  The portable variant has no nodes loop.
AddModelsDone ==
    /\ pc = "am_models"
    /\ am.j > Len(am.manifest.models)
    /\ pc' = IF variant = "full" THEN "am_nodes" ELSE "am_return"
    /\ am' = [am EXCEPT !.j = 1]
    /\ UNCHANGED <<variant, mm, lm, loadedDocs, catalog, fetchVars>>

\* add_manifest, custom nodes loop (full variant): one iteration.
AddNodeStep ==
    /\ pc = "am_nodes"
    /\ am.j <= Len(am.manifest.custom_nodes)
    /\ LET r == AddNodeEntry(mm, am, am.manifest.custom_nodes[am.j]) IN
          /\ mm' = r.mm
          /\ am' = [r.am EXCEPT !.j = @ + 1]
    /\ UNCHANGED <<variant, pc, lm, loadedDocs, catalog, fetchVars>>

AddNodesDone ==
    /\ pc = "am_nodes"
    /\ am.j > Len(am.manifest.custom_nodes)
    /\ pc' = "am_return"
    /\ UNCHANGED <<variant, mm, am, lm, loadedDocs, catalog, fetchVars>>

\* add_manifest returns its counters and load_manifests adds them up.
AddManifestReturn ==
    /\ pc = "am_return"
    /\ lm' = [lm EXCEPT !.total_models = @ + am.models_added,
                        !.total_models_skipped = @ + am.models_skipped,
                        !.total_nodes = @ + am.nodes_added,
                        !.total_nodes_skipped = @ + am.nodes_skipped]
    /\ pc' = "lm_loop"
    /\ UNCHANGED <<variant, mm, am, loadedDocs, catalog, fetchVars>>

\* load_manifests: the loop over the sources ends and the summary is printed.
\* The command line holds at least one source (nargs='+').
LoadManifestsDone ==
    /\ pc = "lm_loop"
    /\ lm.i >= 1
    /\ pc' = "lm_done"
    /\ UNCHANGED <<variant, mm, am, lm, loadedDocs, catalog, fetchVars>>

EmptyDocument == [models |-> <<>>, custom_nodes |-> <<>>]

InitMerge ==
    /\ variant \in {"full", "portable"}
    /\ pc = "lm_loop"
    /\ mm = NewModelManifest
    /\ am = NewCounters(EmptyDocument, "s1")
    /\ lm = NewTotals
    /\ loadedDocs = <<>>
    /\ catalog = [models |-> MergeModels, nodes |-> MergeNodes,
                  sources |-> SourceIds, entries |-> MaxEntries,
                  contents |-> {}, faults |-> FALSE]
    /\ env = [curl |-> FALSE, requests |-> TRUE, faults |-> FALSE]
    /\ fs = [d \in {} |-> Absent]
    /\ df = NewCall(<<>>, <<>>, None, Absent)
    /\ hist = NewHistory
    /\ dm = NewRun(NoArgs)

NextMerge ==
    \/ LoadManifest
    \/ AddModelStep
    \/ AddModelsDone
    \/ AddNodeStep
    \/ AddNodesDone
    \/ AddManifestReturn
    \/ LoadManifestsDone

SpecMerge == InitMerge /\ [][NextMerge]_vars

\* ------------------------------------------------- merge: the claims
KeyOf(kind, e) == IF kind = "model" THEN e.url ELSE e.repo

\* The entries of loaded document n that add_manifest has read so far.
ProcessedOf(n, kind) ==
    LET doc == loadedDocs[n].manifest
        inProgress == n = Len(loadedDocs) /\ pc \in {"am_models", "am_nodes"}
    IN  IF kind = "model"
        THEN IF inProgress /\ pc = "am_models"
             THEN SubSeq(doc.models, 1, am.j - 1)
             ELSE doc.models
        ELSE IF variant # "full" THEN <<>>
             ELSE IF inProgress
                  THEN IF pc = "am_models" THEN <<>>
                       ELSE SubSeq(doc.custom_nodes, 1, am.j - 1)
                  ELSE doc.custom_nodes

Tag(n, seq) ==
    [i \in 1..Len(seq) |->
        [entry |-> seq[i], source |-> loadedDocs[n].source, load |-> n]]

\* The entries read so far in arrival order: source order, then document order.
Arrived(kind) ==
    LET F[n \in 0..Len(loadedDocs)] ==
            IF n = 0 THEN <<>> ELSE F[n - 1] \o Tag(n, ProcessedOf(n, kind))
    IN  F[Len(loadedDocs)]

\* Entry i of A has a key and no earlier entry of A has the same lowercased key.
IsFirst(kind, A, i) ==
    /\ ~Falsy(KeyOf(kind, A[i].entry))
    /\ \A j \in 1..(i - 1) :
          \/ Falsy(KeyOf(kind, A[j].entry))
          \/ Lower(KeyOf(kind, A[j].entry)) # Lower(KeyOf(kind, A[i].entry))

NoDuplicateKeys(kind, plan) ==
    \A i, j \in 1..Len(plan) :
        i # j => Lower(KeyOf(kind, plan[i])) # Lower(KeyOf(kind, plan[j]))

SeenIsFirstSource(kind, seen) ==
    LET A == Arrived(kind) IN
    /\ \A i \in 1..Len(A) :
          IsFirst(kind, A, i) =>
              /\ Lower(KeyOf(kind, A[i].entry)) \in DOMAIN seen
              /\ seen[Lower(KeyOf(kind, A[i].entry))] = A[i].source
    /\ \A k \in DOMAIN seen :
          \E i \in 1..Len(A) :
              IsFirst(kind, A, i) /\ Lower(KeyOf(kind, A[i].entry)) = k

\* C1: in every state the models plan holds no two urls equal after
\* lowercasing, the custom_nodes plan no two such repos, and each seen-map
\* maps exactly the keys supplied so far, each to the source of the first
\* manifest entry that supplied it.
InvC1 ==
    /\ NoDuplicateKeys("model", mm.models)
    /\ NoDuplicateKeys("node", mm.custom_nodes)
    /\ SeenIsFirstSource("model", mm.seen_models)
    /\ SeenIsFirstSource("node", mm.seen_nodes)

\* A later manifest from another source supplied a url differing only in case.
WitC1 ==
    /\ pc = "lm_done"
    /\ LET A == Arrived("model") IN
       \E i, j \in 1..Len(A) :
          /\ i < j
          /\ A[i].source # A[j].source
          /\ ~Falsy(A[i].entry.url) /\ ~Falsy(A[j].entry.url)
          /\ A[i].entry.url # A[j].entry.url
          /\ Lower(A[i].entry.url) = Lower(A[j].entry.url)

AtModel == pc = "am_models" /\ am.j <= Len(am.manifest.models)
AtNode == pc = "am_nodes" /\ am.j <= Len(am.manifest.custom_nodes)
CurModel == am.manifest.models[am.j]
CurNode == am.manifest.custom_nodes[am.j]

DuplicateStepC2 ==
    /\ (AtModel /\ ~Falsy(CurModel.url)
          /\ Lower(CurModel.url) \in DOMAIN mm.seen_models)
       => /\ mm' = mm
          /\ am' = [am EXCEPT !.j = @ + 1, !.models_skipped = @ + 1]
          /\ lm' = lm
    /\ (AtNode /\ ~Falsy(CurNode.repo)
          /\ Lower(CurNode.repo) \in DOMAIN mm.seen_nodes)
       => /\ mm' = mm
          /\ am' = [am EXCEPT !.j = @ + 1, !.nodes_skipped = @ + 1]
          /\ lm' = lm

\* Two manifests, each declaring one model, the urls differing only in case.
ScenarioA ==
    /\ pc = "lm_done"
    /\ Len(loadedDocs) = 2
    /\ \A n \in 1..2 : /\ Len(loadedDocs[n].manifest.models) = 1
                       /\ loadedDocs[n].manifest.custom_nodes = <<>>
                       /\ ~Falsy(loadedDocs[n].manifest.models[1].url)
    /\ loadedDocs[1].manifest.models[1].url # loadedDocs[2].manifest.models[1].url
    /\ Lower(loadedDocs[1].manifest.models[1].url)
         = Lower(loadedDocs[2].manifest.models[1].url)

\* C2: a loop iteration on an entry whose lowercased key is registered leaves
\* the ModelManifest (plans and seen-maps) unchanged and adds one to the
\* current add_manifest's skipped counter and to nothing else; and after
\* two manifests that each declare one model with urls differing only in
\* case, the plan holds the first model alone and the duplicate total is 1.
ThmC2 ==
    /\ [][DuplicateStepC2]_vars
    /\ [](ScenarioA => /\ mm.models = <<loadedDocs[1].manifest.models[1]>>
                       /\ lm.total_models_skipped = 1
                       /\ lm.total_models = 1)

WitC2 == ScenarioA /\ Len(mm.models) = 1

\* The arrived entries that are the first to supply their key.
Expected(kind) ==
    LET A == Arrived(kind)
        F[n \in 0..Len(A)] ==
            IF n = 0 THEN <<>>
            ELSE IF IsFirst(kind, A, n) THEN Append(F[n - 1], A[n].entry)
                 ELSE F[n - 1]
    IN  F[Len(A)]

IsPrefix(s, t) == Len(s) <= Len(t) /\ SubSeq(t, 1, Len(s)) = s

\* C3: each plan is the arrival-order concatenation of the loaded manifests'
\* entries restricted to those with a key that are the first occurrence of
\* their lowercased key, and every step leaves the old plan a prefix of the new.
ThmC3 ==
    /\ [](mm.models = Expected("model") /\ mm.custom_nodes = Expected("node"))
    /\ [][IsPrefix(mm.models, mm.models')
           /\ IsPrefix(mm.custom_nodes, mm.custom_nodes')]_vars

\* Two documents merged, with an entry dropped and two kept in the plan.
WitC3 ==
    /\ pc = "lm_done"
    /\ Len(loadedDocs) = 2
    /\ Len(mm.models) = 2
    /\ Len(Arrived("model")) = 3
    /\ Len(loadedDocs[1].manifest.models) >= 1
    /\ mm.models[1] = loadedDocs[1].manifest.models[1]
    /\ Len(loadedDocs[2].manifest.models) >= 1
    /\ mm.models[2] = loadedDocs[2].manifest.models[Len(loadedDocs[2].manifest.models)]

MissingKeyStepC4 ==
    /\ (AtModel /\ Falsy(CurModel.url))
       => /\ mm' = mm /\ am' = [am EXCEPT !.j = @ + 1] /\ lm' = lm
    /\ (AtNode /\ Falsy(CurNode.repo))
       => /\ mm' = mm /\ am' = [am EXCEPT !.j = @ + 1] /\ lm' = lm

\* C4: a loop iteration on an entry without uniqueness key (no url, no repo,
\* or an empty one) leaves plans and seen-maps unchanged and changes no
\* counter: only the loop moves on.
ThmC4 == [][MissingKeyStepC4]_vars

\* add_manifest has just passed a model without url and a node without repo.
WitC4 ==
    /\ pc = "am_nodes"
    /\ am.j > 1
    /\ Falsy(am.manifest.custom_nodes[am.j - 1].repo)
    /\ \E i \in 1..Len(am.manifest.models) : Falsy(am.manifest.models[i].url)

\* A source is read and no document comes of it.
FailedLoadStepC15 ==
    (pc = "lm_loop" /\ lm'.i = lm.i + 1 /\ loadedDocs' = loadedDocs)
    => /\ mm' = mm
       /\ pc' = "lm_loop"

\* C15 (as claimed): a source that fails to load (unreachable, no such file,
\* or content that is no valid manifest document) leaves plans and seen-maps
\* unchanged and load_manifests goes on with the next source; at its end the
\* plans are the merge of the documents that loaded, in their order.
ClaimC15 ==
    /\ [][FailedLoadStepC15]_vars
    /\ [](pc = "lm_done"
           => /\ mm.models = Expected("model")
              /\ mm.custom_nodes = Expected("node"))

\* --------------------------------------------------- transfer executor
\* What a piece of download_file can do: go on to `next` ("fetch": the
\* transport is to be invoked; "ret": return `result`; "raised": an exception
\* leaves download_file), with the destination file as it is then.
Out(next, result, file, io) ==
    [next |-> next, result |-> result, file |-> file, io |-> io]

\* dest_path.unlink(): the file is removed, or (I/O faults) the call raises.
Unlink(file, faults) ==
    {[ok |-> TRUE, file |-> Absent]}
      \cup (IF faults THEN {[ok |-> FALSE, file |-> file]} ELSE {})

\* full variant, `except Exception`: delete the destination if it exists and
\* return False; an exception of that unlink leaves the function.
FullExcept(file, faults, io) ==
    IF file = Absent
    THEN {Out("ret", FALSE, file, io)}
    ELSE { IF u.ok THEN Out("ret", FALSE, u.file, io)
                   ELSE Out("raised", FALSE, u.file, TRUE) :
           u \in Unlink(file, faults) }

\* parent.mkdir() can fail only where the destination does not exist yet.
MkdirRaises(file, faults) == faults /\ file = Absent

\* Mutant: an existing file without expected digest is fetched again.
FullEnterAlwaysFetch(file, expected_hash, faults) ==
    (IF MkdirRaises(file, faults) THEN FullExcept(file, faults, TRUE) ELSE {})
    \cup
    IF file # Absent
    THEN IF ~Falsy(expected_hash)
         THEN (IF faults THEN FullExcept(file, faults, TRUE) ELSE {})
              \cup (IF VerifyHash(file, expected_hash)
                    THEN {Out("ret", TRUE, file, FALSE)}
                    ELSE {Out("fetch", FALSE, file, FALSE)})
         ELSE {Out("fetch", FALSE, file, FALSE)}
    ELSE {Out("fetch", FALSE, file, FALSE)}

\* full variant, download_file up to the transport: mkdir, then the check of
\* an existing destination.  A stale file is left in place for the fetch.
FullEnter(file, expected_hash, faults) ==
    (IF MkdirRaises(file, faults) THEN FullExcept(file, faults, TRUE) ELSE {})
    \cup
    IF file # Absent
    THEN IF ~Falsy(expected_hash)
         THEN (IF faults THEN FullExcept(file, faults, TRUE) ELSE {})
              \cup (IF VerifyHash(file, expected_hash)
                    THEN {Out("ret", TRUE, file, FALSE)}
                    ELSE {Out("fetch", FALSE, file, FALSE)})
         ELSE {Out("ret", TRUE, file, FALSE)}
    ELSE {Out("fetch", FALSE, file, FALSE)}

\* portable variant, download_file up to the transport: no exception is
\* caught, and a stale file is unlinked before the fetch.
PortableEnter(file, expected_hash, faults) ==
    (IF MkdirRaises(file, faults) THEN {Out("raised", FALSE, file, TRUE)} ELSE {})
    \cup
    IF file # Absent
    THEN IF ~Falsy(expected_hash)
         THEN (IF faults THEN {Out("raised", FALSE, file, TRUE)} ELSE {})
              \cup (IF VerifyHash(file, expected_hash)
                    THEN {Out("ret", TRUE, file, FALSE)}
                    ELSE { IF u.ok THEN Out("fetch", FALSE, u.file, FALSE)
                                   ELSE Out("raised", FALSE, u.file, TRUE) :
                           u \in Unlink(file, faults) })
         ELSE {Out("ret", TRUE, file, FALSE)}
    ELSE {Out("fetch", FALSE, file, FALSE)}

StrictPrefixes(s) == { SubSeq(s, 1, k) : k \in 0..(Len(s) - 1) }

\* requests.get(url, stream=True) then open(dest, 'wb') and the chunk loop:
\* the request fails and nothing is written; or the file is truncated and the
\* stream breaks part-way; or the whole served content is written.
RequestsTransfer(file, contents) ==
    {[ok |-> FALSE, file |-> file]}
      \cup { [ok |-> FALSE, file |-> p] :
             p \in UNION { StrictPrefixes(served) : served \in contents } }
      \cup { [ok |-> TRUE, file |-> served] : served \in contents }

\* What `curl -C - -o dest` leaves when the server sends `served`: the bytes
\* already in the file are kept and the download continues at their count.
CurlResumed(file, served) ==
    LET had == IF file = Absent THEN <<>> ELSE file
    IN  had \o SubSeq(served, Len(had) + 1, Len(served))

\* download_with_curl: curl fails before writing; or resumes at the existing
\* file's byte count and then fails part-way or completes; a file that already
\* holds as many bytes as the server has is left as it is (curl reports a
\* range error, or success, by version).
CurlTransfer(file, contents) ==
    LET had == IF file = Absent THEN <<>> ELSE file IN
    {[ok |-> FALSE, file |-> file]}
      \cup UNION {
             IF Len(served) > Len(had)
             THEN { [ok |-> FALSE, file |-> SubSeq(CurlResumed(file, served), 1, k)] :
                    k \in Len(had)..(Len(served) - 1) }
                  \cup {[ok |-> TRUE, file |-> CurlResumed(file, served)]}
             ELSE IF file = Absent
                  THEN {[ok |-> TRUE, file |-> served]}
                  ELSE {[ok |-> TRUE, file |-> file]} :
             served \in contents }

\* The transport download_file selects: full variant, requests inline;
\* portable variant, curl if on PATH, else requests if importable, else none.
SelectTransport(v, e) ==
    IF v = "full" THEN "requests"
    ELSE IF e.curl THEN "curl"
    ELSE IF e.requests THEN "requests"
    ELSE "none"

Transfer(transport, file, contents) ==
    IF transport = "curl" THEN CurlTransfer(file, contents)
    ELSE RequestsTransfer(file, contents)

\* Mutant: a failed transfer's partial file is left in place.
PortablePostKeepsPartial(success, file, expected_hash, faults) ==
    IF ~success
    THEN {Out("ret", FALSE, file, FALSE)}
    ELSE IF ~Falsy(expected_hash)
         THEN IF VerifyHash(file, expected_hash)
              THEN {Out("ret", TRUE, file, FALSE)}
              ELSE {Out("ret", FALSE, Absent, FALSE)}
         ELSE {Out("ret", TRUE, file, FALSE)}

\* portable variant, download_file after the transport: clean up on failure,
\* verify the digest if one was given, return.
PortablePost(success, file, expected_hash, faults) ==
    IF ~success
    THEN IF file # Absent
         THEN { IF u.ok THEN Out("ret", FALSE, u.file, FALSE)
                        ELSE Out("raised", FALSE, u.file, TRUE) :
                u \in Unlink(file, faults) }
         ELSE {Out("ret", FALSE, file, FALSE)}
    ELSE IF ~Falsy(expected_hash)
         THEN IF file = Absent
              THEN {Out("raised", FALSE, file, TRUE)}
              ELSE (IF faults THEN {Out("raised", FALSE, file, TRUE)} ELSE {})
                   \cup (IF VerifyHash(file, expected_hash)
                         THEN {Out("ret", TRUE, file, FALSE)}
                         ELSE { IF u.ok THEN Out("ret", FALSE, u.file, FALSE)
                                        ELSE Out("raised", FALSE, u.file, TRUE) :
                                u \in Unlink(file, faults) })
         ELSE {Out("ret", TRUE, file, FALSE)}

\* full variant, download_file after requests.get and the write loop: an
\* exception of either goes to the except clause; else verify and return.
FullPost(success, file, expected_hash, faults) ==
    IF ~success
    THEN FullExcept(file, faults, FALSE)
    ELSE IF ~Falsy(expected_hash)
         THEN (IF faults THEN FullExcept(file, faults, TRUE) ELSE {})
              \cup (IF VerifyHash(file, expected_hash)
                    THEN {Out("ret", TRUE, file, FALSE)}
                    ELSE UNION { IF u.ok THEN {Out("ret", FALSE, u.file, FALSE)}
                                         ELSE FullExcept(u.file, faults, TRUE) :
                                 u \in Unlink(file, faults) })
         ELSE {Out("ret", TRUE, file, FALSE)}

\* The outcome o of a piece of download_file is applied to the state.
Apply(o) ==
    /\ fs' = [fs EXCEPT ![df.dest_path] = o.file]
    /\ pc' = CASE o.next = "fetch" -> "df_fetch"
               [] o.next = "ret" -> "df_ret"
               [] OTHER -> "df_raised"
    /\ df' = [df EXCEPT !.result = o.result, !.io = @ \/ o.io]

\* download_file, from the call to the point where a transport is needed.
DfEnter ==
    /\ pc = "df_call"
    /\ \E o \in IF variant = "full"
                THEN FullEnter(fs[df.dest_path], df.expected_hash, env.faults)
                ELSE PortableEnter(fs[df.dest_path], df.expected_hash, env.faults) :
          Apply(o)
    /\ UNCHANGED <<variant, mergeVars, catalog, env, hist, dm>>

\* download_file: the transport is selected and invoked and it ends, with
\* success or not; with no transport (portable) download_file returns False.
DfTransport ==
    /\ pc = "df_fetch"
    /\ LET transport == SelectTransport(variant, env) IN
       IF transport = "none"
       THEN /\ pc' = "df_ret"
            /\ df' = [df EXCEPT !.result = FALSE]
            /\ UNCHANGED fs
       ELSE \E t \in Transfer(transport, fs[df.dest_path], catalog.contents) :
               /\ fs' = [fs EXCEPT ![df.dest_path] = t.file]
               /\ df' = [df EXCEPT !.success = t.ok,
                                   !.transport = transport,
                                   !.transportCalls = @ + 1,
                                   !.destAtFetch = fs[df.dest_path],
                                   !.xferFile = t.file]
               /\ pc' = "df_post"
    /\ UNCHANGED <<variant, mergeVars, catalog, env, hist, dm>>

\* download_file, after the transport.
DfPost ==
    /\ pc = "df_post"
    /\ \E o \in IF variant = "full"
                THEN FullPost(df.success, fs[df.dest_path], df.expected_hash, env.faults)
                ELSE PortablePost(df.success, fs[df.dest_path], df.expected_hash, env.faults) :
          Apply(o)
    /\ UNCHANGED <<variant, mergeVars, catalog, env, hist, dm>>

\* The process is killed while the transport runs: whatever the transport
\* had written by then stays on disk, and no cleanup runs.
Kill ==
    /\ pc = "df_fetch"
    /\ LET transport == SelectTransport(variant, env) IN
       /\ transport # "none"
       /\ \E t \in Transfer(transport, fs[df.dest_path], catalog.contents) :
             /\ ~t.ok
             /\ fs' = [fs EXCEPT ![df.dest_path] = t.file]
             /\ hist' = [hist EXCEPT !.left = t.file, !.killedIn = transport]
             /\ df' = [df EXCEPT !.transport = transport,
                                 !.transportCalls = @ + 1,
                                 !.destAtFetch = fs[df.dest_path],
                                 !.xferFile = t.file]
    /\ pc' = "killed"
    /\ UNCHANGED <<variant, mergeVars, catalog, env, dm>>

\* The tool is started again and acquires the same entry: download_file is
\* called with the same arguments on the filesystem as the kill left it.
Restart ==
    /\ pc = "killed"
    /\ hist.runs < MaxRuns
    /\ hist' = [hist EXCEPT !.runs = @ + 1]
    /\ df' = NewCall(df.url, df.dest_path, df.expected_hash, fs[df.dest_path])
    /\ pc' = "df_call"
    /\ UNCHANGED <<variant, mergeVars, catalog, env, fs, dm>>

\* The expected_hash arguments: none, the empty string, a lowercase digest of
\* some content, or such a digest written in uppercase.
HashArgs ==
    {None, <<>>} \cup { Sha256(c) : c \in Contents }
                 \cup { UpperHex(Sha256(c)) : c \in Contents }

\* The hosts: the full variant needs requests; the portable one has any of
\* curl and requests, or neither.
Hosts(v) ==
    IF v = "full"
    THEN { [curl |-> FALSE, requests |-> TRUE, faults |-> f] : f \in BOOLEAN }
    ELSE { [curl |-> c, requests |-> r, faults |-> f] :
           c \in BOOLEAN, r \in BOOLEAN, f \in BOOLEAN }

FetchDest == <<"d">>

\* One call download_file(url, dest_path, expected_hash) on any host, with the
\* destination absent or holding any content.
InitFetch ==
    /\ variant \in {"full", "portable"}
    /\ env \in Hosts(variant)
    /\ fs \in [{FetchDest} -> Contents \cup {Absent}]
    /\ \E h \in HashArgs : df = NewCall(<<"a">>, FetchDest, h, fs[FetchDest])
    /\ hist = NewHistory
    /\ dm = NewRun(NoArgs)
    /\ pc = "df_call"
    /\ mm = NewModelManifest
    /\ am = NewCounters(EmptyDocument, "s1")
    /\ lm = NewTotals
    /\ loadedDocs = <<>>
    /\ catalog = [models |-> {}, nodes |-> {}, sources |-> {}, entries |-> 0,
                  contents |-> Contents, faults |-> TRUE]

NextFetch ==
    \/ DfEnter
    \/ DfTransport
    \/ DfPost
    \/ Kill
    \/ Restart

SpecFetch == InitFetch /\ [][NextFetch]_vars

\* ------------------------------------------- transfer executor: claims
\* download_file has passed its check of an existing destination.
PastEnter == pc \in {"df_fetch", "df_post", "df_ret", "df_raised", "killed"}

\* C6: when the destination exists at the call and either no digest is given
\* (None or empty) or the file's digest equals the given one, and no
\* filesystem call raised, download_file has returned True straight from its
\* check, has invoked no transport, and the file is the file of the call.
InvC6 ==
    (/\ PastEnter
     /\ df.fileAtCall # Absent
     /\ Falsy(df.expected_hash) \/ Sha256(df.fileAtCall) = df.expected_hash
     /\ ~df.io)
    => /\ pc = "df_ret"
       /\ df.result
       /\ df.transportCalls = 0
       /\ fs[df.dest_path] = df.fileAtCall

\* A digest was given, the existing file matched, and the call returned.
WitC6 ==
    /\ pc = "df_ret"
    /\ df.fileAtCall # Absent
    /\ ~Falsy(df.expected_hash)
    /\ Sha256(df.fileAtCall) = df.expected_hash
    /\ df.result
    /\ df.transportCalls = 0

\* C7 (as claimed): when a digest is given, the destination exists with
\* another digest and a transport is available, the transport is invoked and
\* the destination is absent when it is invoked, in both variants.
ClaimC7 ==
    (/\ pc \in {"df_post", "df_ret"}
     /\ df.fileAtCall # Absent
     /\ ~Falsy(df.expected_hash)
     /\ Sha256(df.fileAtCall) # df.expected_hash
     /\ SelectTransport(variant, env) # "none"
     /\ ~df.io)
    => /\ df.transportCalls = 1
       /\ df.destAtFetch = Absent

\* C8: whenever download_file returns False the destination does not exist.
InvC8 ==
    (pc = "df_ret" /\ ~df.result) => fs[df.dest_path] = Absent

\* A transport failed or brought a mismatching file, leaving a file behind,
\* and download_file returned False.
WitC8 ==
    /\ pc = "df_ret"
    /\ ~df.result
    /\ df.transportCalls = 1
    /\ df.xferFile # Absent

\* C9: whenever download_file, given a digest, returns True, the destination
\* exists and its digest is the given one; and it does not return True after
\* a transport that succeeded with a file of another digest.
InvC9 ==
    /\ (pc = "df_ret" /\ df.result /\ ~Falsy(df.expected_hash))
       => /\ fs[df.dest_path] # Absent
          /\ Sha256(fs[df.dest_path]) = df.expected_hash
    /\ (/\ pc = "df_ret"
        /\ ~Falsy(df.expected_hash)
        /\ df.transportCalls = 1
        /\ df.success
        /\ df.xferFile = Absent \/ Sha256(df.xferFile) # df.expected_hash)
       => ~df.result

\* A stale file was replaced by a fetched one that verified.
WitC9 ==
    /\ pc = "df_ret"
    /\ df.result
    /\ ~Falsy(df.expected_hash)
    /\ df.transportCalls = 1
    /\ df.fileAtCall # Absent

\* C10 (as claimed): with curl as the transport, when the process was killed
\* during an acquisition and left a partial file of at least one byte, the
\* next acquisition of the entry invokes curl on that partial file, so that
\* curl continues at its byte count, with or without a digest.
ClaimC10 ==
    (/\ pc \in {"df_post", "df_ret"}
     /\ variant = "portable"
     /\ env.curl
     /\ hist.runs >= 2
     /\ hist.killedIn = "curl"
     /\ hist.left # Absent
     /\ Len(hist.left) >= 1
     /\ ~df.io)
    => /\ df.transport = "curl"
       /\ df.transportCalls = 1
       /\ df.destAtFetch = hist.left

\* ---------------------------------------------------------- plan runner
\* Entries (models and nodes together) of the manifests of a complete run.
MaxRunEntries == 2

\* dict.get(key, default), an absent key being None
Get(v, default) == IF v = None THEN default ELSE v

\* str.replace(old, new) for one-letter old and new
ReplaceChar(s, old, new) == [i \in DOMAIN s |-> IF s[i] = old THEN new ELSE s[i]]

\* os.path.basename: what follows the last "/"
Basename(path) ==
    LET slashes == { i \in DOMAIN path : path[i] = "/" }
        last == IF slashes = {} THEN 0
                ELSE CHOOSE i \in slashes : \A j \in slashes : j <= i
    IN  SubSeq(path, last + 1, Len(path))

\* urlparse(url).path: the modelled urls are written without scheme, host
\* and query, so the url is its path.
UrlPath(url) == url

Unknown == <<"U","n","k","n","o","w","n">>
DefaultModelPath == <<"models/checkpoints">>
DefaultNodePath == <<"custom_nodes">>

\* download_models: the file name is the entry's filename, else the last
\* segment of the url, else the name with spaces replaced, ".safetensors" added.
ModelFilename(model) ==
    LET fromUrl == IF Falsy(model.filename)
                   THEN Basename(UrlPath(model.url))
                   ELSE model.filename
    IN  IF Falsy(fromUrl)
        THEN ReplaceChar(Get(model.name, Unknown), " ", "_") \o <<".safetensors">>
        ELSE fromUrl

\* Path(COMFYUI_PATH) / rel_path / filename
ModelDest(model) == <<Get(model.path, DefaultModelPath), ModelFilename(model)>>

\* Path(COMFYUI_PATH) / rel_path / dir_name
NodeDest(node) ==
    <<Get(node.path, DefaultNodePath),
      ReplaceChar(ReplaceChar(Get(node.name, Unknown), " ", "-"), "/", "-")>>

\* m.get('type') in types_filter
TypeIn(type, types) == \E k \in DOMAIN types : types[k] = type

\* Mutant: an entry without type passes the filter.
FilteredKeepsUntyped(models, types) ==
    IF types # <<>>
    THEN SelectSeq(models, LAMBDA m : m.type = None \/ TypeIn(m.type, types))
    ELSE models

\* download_models: the models the loop runs over.
Filtered(models, types) ==
    IF types # <<>>
    THEN SelectSeq(models, LAMBDA m : TypeIn(m.type, types))
    ELSE models

\* The exit codes of `git clone`: 0, and two of its failures.
GitExits == {0, 1, 128}

\* os.system: the wait status of the command, its exit code in the high byte.
OsSystem(exit) == exit * 256

\* Mutant: any status below 2^15 is taken for success.
CloneRepoLenient(file, faults) ==
    (IF MkdirRaises(file, faults)
     THEN {[result |-> FALSE, file |-> file, invoked |-> FALSE,
            exit |-> 0, status |-> 0]}
     ELSE {})
    \cup
    IF file # Absent
    THEN {[result |-> TRUE, file |-> file, invoked |-> FALSE,
            exit |-> 0, status |-> 0]}
    ELSE UNION { { [result |-> OsSystem(e) < 32768, file |-> f,
                    invoked |-> TRUE, exit |-> e, status |-> OsSystem(e)] :
                   f \in IF e = 0 THEN {Dir} ELSE {Absent, Dir} } :
                 e \in GitExits }

\* clone_repo: a raising mkdir is caught and gives False; an existing
\* destination is success with no client call; else git clone is run, and
\* the result is whether os.system returned 0: on exit 0 the directory is
\* there, on another exit it was made or not.
CloneRepo(file, faults) ==
    (IF MkdirRaises(file, faults)
     THEN {[result |-> FALSE, file |-> file, invoked |-> FALSE,
            exit |-> 0, status |-> 0]}
     ELSE {})
    \cup
    IF file # Absent
    THEN {[result |-> TRUE, file |-> file, invoked |-> FALSE,
            exit |-> 0, status |-> 0]}
    ELSE UNION { { [result |-> OsSystem(e) = 0, file |-> f,
                    invoked |-> TRUE, exit |-> e, status |-> OsSystem(e)] :
                   f \in IF e = 0 THEN {Dir} ELSE {Absent, Dir} } :
                 e \in GitExits }

\* The command lines: the portable variant has no --models-only/--nodes-only;
\* the full one refuses both together before any work.
ArgSets(v) ==
    { a \in { Args(t, d, mo, no, l) :
                t \in {<<>>, << <<"l">> >>}, d \in BOOLEAN, l \in BOOLEAN,
                mo \in IF v = "full" THEN BOOLEAN ELSE {FALSE},
                no \in IF v = "full" THEN BOOLEAN ELSE {FALSE} } :
        ~(a.models_only /\ a.nodes_only) }

\* The destinations the catalog's entries resolve to.
Destinations(cat) ==
    { ModelDest(m) : m \in { x \in cat.models : ~Falsy(x.url) } }
      \cup { NodeDest(n) : n \in cat.nodes }

\* The disk before the run: each model destination absent or holding a
\* file, each node destination absent or a directory.
InitialFiles(cat) ==
    LET nodeDests == { NodeDest(n) : n \in cat.nodes } IN
    { f \in [Destinations(cat) -> {Absent, Dir} \cup cat.contents] :
        \A d \in Destinations(cat) :
            IF d \in nodeDests THEN f[d] \in {Absent, Dir}
            ELSE f[d] \in {Absent, <<1>>} }

AfterModels == IF ~dm.args.models_only /\ variant = "full"
               THEN "icn_begin" ELSE "main_exit"

\* main, after load_manifests: the arguments, the host and the disk are
\* first read here.  --list prints the plan and returns.
MainAfterLoad ==
    /\ pc = "lm_done"
    /\ \E args \in ArgSets(variant), host \in Hosts(variant),
          files \in InitialFiles(catalog) :
          /\ host.faults => catalog.faults
          /\ dm' = NewRun(args)
          /\ env' = host
          /\ fs' = files
          /\ pc' = IF args.list THEN "exit"
                   ELSE IF args.nodes_only THEN "icn_begin" ELSE "dm_begin"
    /\ UNCHANGED <<variant, mergeVars, catalog, df, hist>>

\* download_models: the filter, and the early return on an empty list.
DmBegin ==
    /\ pc = "dm_begin"
    /\ LET models == Filtered(mm.models, dm.args.types) IN
       IF models = <<>>
       THEN /\ dm' = [dm EXCEPT !.phases = @ \cup {"models"}, !.items = <<>>,
                                !.results = <<>>]
            /\ pc' = AfterModels
       ELSE /\ dm' = [dm EXCEPT !.items = models, !.i = 1,
                                !.success_count = 0, !.fail_count = 0,
                                !.phases = @ \cup {"models"},
                                !.results = <<>>]
            /\ pc' = "dm_loop"
    /\ UNCHANGED <<variant, mergeVars, catalog, env, fs, df, hist>>

\* Mutant: the dry-run test comes before the test of the url.
DmStepDryRunFirst ==
    /\ pc = "dm_loop"
    /\ dm.i <= Len(dm.items)
    /\ LET model == dm.items[dm.i] IN
       IF dm.args.dry_run
       THEN /\ dm' = [dm EXCEPT !.success_count = @ + 1, !.i = @ + 1,
                                !.results = Append(@, TRUE)]
            /\ UNCHANGED <<pc, df>>
       ELSE IF Falsy(model.url)
       THEN /\ dm' = [dm EXCEPT !.fail_count = @ + 1, !.i = @ + 1,
                                !.results = Append(@, FALSE)]
            /\ UNCHANGED <<pc, df>>
       ELSE /\ df' = NewCall(model.url, ModelDest(model), model.sha256,
                             fs[ModelDest(model)])
            /\ dm' = [dm EXCEPT !.calls = @ + 1]
            /\ pc' = "df_call"
    /\ UNCHANGED <<variant, mergeVars, catalog, env, fs, hist>>

\* download_models: one iteration, up to the call of download_file.
DmStep ==
    /\ pc = "dm_loop"
    /\ dm.i <= Len(dm.items)
    /\ LET model == dm.items[dm.i] IN
       IF Falsy(model.url)
       THEN /\ dm' = [dm EXCEPT !.fail_count = @ + 1, !.i = @ + 1,
                                !.results = Append(@, FALSE)]
            /\ UNCHANGED <<pc, df>>
       ELSE IF dm.args.dry_run
       THEN /\ dm' = [dm EXCEPT !.success_count = @ + 1, !.i = @ + 1,
                                !.results = Append(@, TRUE)]
            /\ UNCHANGED <<pc, df>>
       ELSE /\ df' = NewCall(model.url, ModelDest(model), model.sha256,
                             fs[ModelDest(model)])
            /\ dm' = [dm EXCEPT !.calls = @ + 1]
            /\ pc' = "df_call"
    /\ UNCHANGED <<variant, mergeVars, catalog, env, fs, hist>>

\* download_models: download_file has returned and is counted.
DmAfterDownload ==
    /\ pc = "df_ret"
    /\ dm' = IF df.result
             THEN [dm EXCEPT !.success_count = @ + 1, !.i = @ + 1,
                             !.results = Append(@, TRUE)]
             ELSE [dm EXCEPT !.fail_count = @ + 1, !.i = @ + 1,
                             !.failedCalls = @ + 1,
                             !.results = Append(@, FALSE)]
    /\ pc' = "dm_loop"
    /\ UNCHANGED <<variant, mergeVars, catalog, env, fs, df, hist>>

\* download_models returns its counts and main adds them to its totals.
DmReturn ==
    /\ pc = "dm_loop"
    /\ dm.i > Len(dm.items)
    /\ dm' = [dm EXCEPT !.total_success = @ + dm.success_count,
                        !.total_fail = @ + dm.fail_count]
    /\ pc' = AfterModels
    /\ UNCHANGED <<variant, mergeVars, catalog, env, fs, df, hist>>

\* install_custom_nodes (full variant): the early return on no nodes.
IcnBegin ==
    /\ pc = "icn_begin"
    /\ IF mm.custom_nodes = <<>>
       THEN /\ dm' = [dm EXCEPT !.phases = @ \cup {"nodes"}, !.items = <<>>,
                                !.results = <<>>]
            /\ pc' = "main_exit"
       ELSE /\ dm' = [dm EXCEPT !.items = mm.custom_nodes, !.i = 1,
                                !.success_count = 0, !.fail_count = 0,
                                !.phases = @ \cup {"nodes"},
                                !.results = <<>>]
            /\ pc' = "icn_loop"
    /\ UNCHANGED <<variant, mergeVars, catalog, env, fs, df, hist>>

\* install_custom_nodes: one iteration, clone_repo included.
IcnStep ==
    /\ pc = "icn_loop"
    /\ dm.i <= Len(dm.items)
    /\ LET node == dm.items[dm.i] IN
       IF Falsy(node.repo)
       THEN /\ dm' = [dm EXCEPT !.fail_count = @ + 1, !.i = @ + 1,
                                !.results = Append(@, FALSE)]
            /\ UNCHANGED fs
       ELSE IF dm.args.dry_run
       THEN /\ dm' = [dm EXCEPT !.success_count = @ + 1, !.i = @ + 1,
                                !.results = Append(@, TRUE)]
            /\ UNCHANGED fs
       ELSE \E c \in CloneRepo(fs[NodeDest(node)], env.faults) :
               LET call == CloneCall(fs[NodeDest(node)], c.invoked, c.exit,
                                     c.result) IN
               /\ fs' = [fs EXCEPT ![NodeDest(node)] = c.file]
               /\ dm' = IF c.result
                        THEN [dm EXCEPT !.success_count = @ + 1, !.i = @ + 1,
                                        !.calls = @ + 1, !.clone = call,
                                        !.results = Append(@, TRUE)]
                        ELSE [dm EXCEPT !.fail_count = @ + 1, !.i = @ + 1,
                                        !.calls = @ + 1, !.failedCalls = @ + 1,
                                        !.clone = call,
                                        !.results = Append(@, FALSE)]
    /\ UNCHANGED <<variant, pc, mergeVars, catalog, env, df, hist>>

\* install_custom_nodes returns its counts and main adds them to its totals.
IcnReturn ==
    /\ pc = "icn_loop"
    /\ dm.i > Len(dm.items)
    /\ dm' = [dm EXCEPT !.total_success = @ + dm.success_count,
                        !.total_fail = @ + dm.fail_count]
    /\ pc' = "main_exit"
    /\ UNCHANGED <<variant, mergeVars, catalog, env, fs, df, hist>>

\* Mutant: the exit code looks at the failures of the last phase alone.
MainExitLastPhase ==
    /\ pc = "main_exit"
    /\ dm' = [dm EXCEPT !.exit_code = IF dm.fail_count = 0 THEN 0 ELSE 1]
    /\ pc' = "exit"
    /\ UNCHANGED <<variant, mergeVars, catalog, env, fs, df, hist>>

\* main: sys.exit(0 if total_fail == 0 else 1)
MainExit ==
    /\ pc = "main_exit"
    /\ dm' = [dm EXCEPT !.exit_code = IF dm.total_fail = 0 THEN 0 ELSE 1]
    /\ pc' = "exit"
    /\ UNCHANGED <<variant, mergeVars, catalog, env, fs, df, hist>>

\* The entries of a complete run's manifests: two models with urls, of two
\* types, one model without url; a node with repo and one without.
RunModels ==
    { Model(<<"m","1">>, <<"x","/","a">>, <<"l">>, None, None, None),
      Model(<<"m","2">>, <<"b">>, <<"c">>, None, None, None),
      Model(<<"m","3">>, None, <<"l">>, None, None, None) }

RunNodes ==
    { Node(<<"n"," ","1">>, <<"r">>, None),
      Node(<<"n","2">>, None, None) }

\* A complete run: main from the construction of the ModelManifest on.
InitRun ==
    /\ variant \in {"full", "portable"}
    /\ pc = "lm_loop"
    /\ mm = NewModelManifest
    /\ am = NewCounters(EmptyDocument, "s1")
    /\ lm = NewTotals
    /\ loadedDocs = <<>>
    /\ catalog = [models |-> RunModels, nodes |-> RunNodes,
                  sources |-> {"s1"}, entries |-> MaxRunEntries,
                  contents |-> {<<1>>, <<2>>}, faults |-> FALSE]
    /\ env = [curl |-> FALSE, requests |-> TRUE, faults |-> FALSE]
    /\ fs = [d \in Destinations(catalog) |-> Absent]
    /\ df = NewCall(<<>>, <<>>, None, Absent)
    /\ hist = NewHistory
    /\ dm = NewRun(NoArgs)

NextRun ==
    \/ LoadManifest
    \/ AddModelStep
    \/ AddModelsDone
    \/ AddNodeStep
    \/ AddNodesDone
    \/ AddManifestReturn
    \/ LoadManifestsDone
    \/ MainAfterLoad
    \/ DmBegin
    \/ DmStep
    \/ DfEnter
    \/ DfTransport
    \/ DfPost
    \/ DmAfterDownload
    \/ DmReturn
    \/ IcnBegin
    \/ IcnStep
    \/ IcnReturn
    \/ MainExit

SpecRun == InitRun /\ [][NextRun]_vars

\* -------------------------------------------------- plan runner: claims
\* Model entries without url in the manifests that loaded; node entries
\* without repo.
CountMissing(kind) ==
    LET F[n \in 0..Len(loadedDocs)] ==
            IF n = 0 THEN 0
            ELSE LET es == IF kind = "model"
                           THEN loadedDocs[n].manifest.models
                           ELSE loadedDocs[n].manifest.custom_nodes
                 IN  F[n - 1]
                       + Cardinality({ i \in DOMAIN es : Falsy(KeyOf(kind, es[i])) })
    IN  F[Len(loadedDocs)]

\* The entries the phases that ran had to process.
Processed ==
    (IF "models" \in dm.phases
     THEN Len(Filtered(mm.models, dm.args.types)) ELSE 0)
    + (IF "nodes" \in dm.phases THEN Len(mm.custom_nodes) ELSE 0)

RunComplete == pc = "exit" /\ ~dm.args.list

\* C5 (as claimed): at the end of a complete run without type filter, no
\* plan entry lacks its key, and every manifest entry that lacks its key
\* has added one to the failure count of its phase, beside the transfers
\* that failed.
ClaimC5 ==
    (RunComplete /\ dm.args.types = <<>>)
    => /\ \A i \in DOMAIN mm.models : ~Falsy(mm.models[i].url)
       /\ \A i \in DOMAIN mm.custom_nodes : ~Falsy(mm.custom_nodes[i].repo)
       /\ dm.total_fail = dm.failedCalls
            + (IF "models" \in dm.phases THEN CountMissing("model") ELSE 0)
            + (IF "nodes" \in dm.phases THEN CountMissing("node") ELSE 0)

\* C5 (amended): at the end of a complete run no plan entry lacks its key,
\* and a manifest entry that lacks its key adds nothing to the counts: the
\* failure count is the number of transfers that returned failure, and
\* successes and failures together are the filtered plan entries of the
\* phases that ran.
InvC5 ==
    RunComplete
    => /\ \A i \in DOMAIN mm.models : ~Falsy(mm.models[i].url)
       /\ \A i \in DOMAIN mm.custom_nodes : ~Falsy(mm.custom_nodes[i].repo)
       /\ dm.total_fail = dm.failedCalls
       /\ dm.total_success + dm.total_fail = Processed

\* A real run whose manifests held a model without url, with a model
\* downloaded and no failure counted.
WitC5 ==
    /\ RunComplete
    /\ ~dm.args.dry_run
    /\ dm.args.types = <<>>
    /\ "models" \in dm.phases
    /\ CountMissing("model") >= 1
    /\ dm.total_success >= 1
    /\ dm.total_fail = 0
    /\ dm.exit_code = 0

\* ------------------------------------------- the phases on any manifest
\* Entries (models and nodes together) of the manifest given to the phases.
MaxPlanEntries == 2

\* Model entries of a manifest handed to download_models: two urls of one
\* last segment, so of one destination, with the digests of two contents and
\* of two types; an entry without type and digest; an entry without url.
PlanModels ==
    { Model(<<"m","1">>, <<"x","/","a">>, <<"l">>, None, None, Sha256(<<1>>)),
      Model(<<"m","2">>, <<"y","/","a">>, <<"c">>, None, None, Sha256(<<2>>)),
      Model(<<"m","3">>, <<"b">>, None, None, None, None),
      Model(<<"m","4">>, None, <<"l">>, None, None, None) }

\* Node entries handed to install_custom_nodes: with and without repo.
PlanNodes ==
    { Node(<<"n"," ","1">>, <<"r">>, None),
      Node(<<"n"," ","1">>, None, None) }

\* A ModelManifest holding the given lists, its seen-maps over their keys.
PlanManifest(models, custom_nodes) ==
    [models |-> models, custom_nodes |-> custom_nodes,
     seen_models |->
        [k \in { Lower(models[i].url) :
                    i \in { j \in DOMAIN models : ~Falsy(models[j].url) } }
           |-> "s1"],
     seen_nodes |->
        [k \in { Lower(custom_nodes[i].repo) :
                    i \in { j \in DOMAIN custom_nodes :
                               ~Falsy(custom_nodes[j].repo) } }
           |-> "s1"]]

\* An exception that left download_file passes through download_models and
\* main, neither of which catches it: the interpreter prints the traceback
\* and the process ends with status 1.
MainRaised ==
    /\ pc = "df_raised"
    /\ dm' = [dm EXCEPT !.exit_code = 1]
    /\ pc' = "aborted"
    /\ UNCHANGED <<variant, mergeVars, catalog, env, fs, df, hist>>

\* main after load_manifests, the combined manifest being any lists of
\* entries: download_models and install_custom_nodes take any manifest dict,
\* so also entries a merge does not let through (no url, a url twice).
InitPlan ==
    /\ variant \in {"full", "portable"}
    /\ pc = "lm_done"
    /\ catalog = [models |-> PlanModels, nodes |-> PlanNodes,
                  sources |-> {"s1"}, entries |-> MaxPlanEntries,
                  contents |-> {<<1>>, <<2>>}, faults |-> TRUE]
    /\ \E d \in Documents(catalog, MaxPlanEntries) :
          /\ variant = "portable" => d.custom_nodes = <<>>
          /\ mm = PlanManifest(d.models, d.custom_nodes)
    /\ am = NewCounters(EmptyDocument, "s1")
    /\ lm = [NewTotals EXCEPT !.i = 1]
    /\ loadedDocs = <<>>
    /\ env = [curl |-> FALSE, requests |-> TRUE, faults |-> FALSE]
    /\ fs = [d \in Destinations(catalog) |-> Absent]
    /\ df = NewCall(<<>>, <<>>, None, Absent)
    /\ hist = NewHistory
    /\ dm = NewRun(NoArgs)

NextPlan ==
    \/ MainAfterLoad
    \/ DmBegin
    \/ DmStep
    \/ DfEnter
    \/ DfTransport
    \/ DfPost
    \/ DmAfterDownload
    \/ MainRaised
    \/ DmReturn
    \/ IcnBegin
    \/ IcnStep
    \/ IcnReturn
    \/ MainExit

SpecPlan == InitPlan /\ [][NextPlan]_vars

\* ------------------------------------------------- the phases: claims
\* A phase of a run that is not --list has returned its counts.
PhasesReturned == pc \in {"main_exit", "exit"} /\ ~dm.args.list

\* C11 (as claimed): in a real run no failure while acquiring an entry
\* leaves download_file as an exception or ends the run: each is counted
\* as one failure, the loop goes on, and the phases return counts whose sum
\* is the number of filtered entries, in both variants.
ClaimC11 ==
    /\ pc \notin {"df_raised", "aborted"}
    /\ (PhasesReturned /\ ~dm.args.dry_run)
       => dm.total_success + dm.total_fail = Processed

\* The entry has its key: a url for a model, a repo for a node.
HasKey(e) == IF "url" \in DOMAIN e THEN ~Falsy(e.url) ELSE ~Falsy(e.repo)

CountKeyed(seq) == Cardinality({ i \in DOMAIN seq : HasKey(seq[i]) })

\* The entries the phases that ran are given, after the type filter.
Given(phase) ==
    IF phase \notin dm.phases THEN <<>>
    ELSE IF phase = "models" THEN Filtered(mm.models, dm.args.types)
    ELSE mm.custom_nodes

\* Of these, the entries with a key and those without.
Attemptable == CountKeyed(Given("models")) + CountKeyed(Given("nodes"))
NoSource == Len(Given("models")) + Len(Given("nodes")) - Attemptable

\* The runner is at an entry of its loop, before anything is done for it.
AtEntry == pc \in {"dm_loop", "icn_loop"} /\ dm.i <= Len(dm.items)

NoCallYet == NewCall(<<>>, <<>>, None, Absent)

\* A dry run touches nothing: no file, no download_file or clone_repo call.
DryStepC12 ==
    dm.args.dry_run => fs' = fs /\ df' = df /\ dm'.calls = dm.calls
                         /\ dm'.clone = dm.clone

\* An entry without key is counted failed and nothing else happens, in a dry
\* run and in a real one.
NoSourceStepC12 ==
    (AtEntry /\ ~HasKey(dm.items[dm.i]))
    => /\ fs' = fs /\ df' = df /\ pc' = pc
       /\ dm' = [dm EXCEPT !.fail_count = @ + 1, !.i = @ + 1,
                           !.results = Append(@, FALSE)]

\* An entry with key is counted succeeded by a dry run and handed to
\* download_file or clone_repo by a real run.
KeyedStepC12 ==
    (AtEntry /\ HasKey(dm.items[dm.i]))
    => IF dm.args.dry_run
       THEN /\ pc' = pc
            /\ dm' = [dm EXCEPT !.success_count = @ + 1, !.i = @ + 1,
                                !.results = Append(@, TRUE)]
       ELSE /\ dm'.calls = dm.calls + 1
            /\ pc = "dm_loop" => /\ pc' = "df_call"
                                  /\ df'.url = dm.items[dm.i].url
                                  /\ df'.transportCalls = 0

\* C12: a dry run invokes no transport and changes no file, and counts as
\* succeeded exactly the filtered entries with a url (repo), as failed
\* exactly those without; a real run that returns its counts has called
\* download_file or clone_repo for exactly the entries with url (repo), and
\* has failed the others without touching a file or calling a transfer.
ThmC12 ==
    /\ [][DryStepC12 /\ NoSourceStepC12 /\ KeyedStepC12]_vars
    /\ []((PhasesReturned /\ dm.args.dry_run)
           => /\ dm.total_success = Attemptable
              /\ dm.total_fail = NoSource
              /\ dm.calls = 0
              /\ df = NoCallYet)
    /\ []((PhasesReturned /\ ~dm.args.dry_run)
           => /\ dm.calls = Attemptable
              /\ dm.total_fail - dm.failedCalls = NoSource)

\* A dry run with a type filter has counted an entry with url succeeded and
\* an entry without url failed.
WitC12 ==
    /\ PhasesReturned
    /\ dm.args.dry_run
    /\ dm.args.types # <<>>
    /\ "models" \in dm.phases
    /\ CountKeyed(Given("models")) >= 1
    /\ Len(Given("models")) > CountKeyed(Given("models"))
    /\ dm.total_success >= 1
    /\ dm.total_fail >= 1

\* The models phase has begun and the nodes phase has not: dm.items is the
\* list download_models runs over.
InModels == "models" \in dm.phases /\ "nodes" \notin dm.phases

\* The plan's models kept by the filter, in plan order: all of them when no
\* filter is given, else those that have a type that is one of the filter's.
KeptC13 ==
    LET types == { dm.args.types[k] : k \in DOMAIN dm.args.types }
        keep(m) == dm.args.types = <<>> \/ (m.type # None /\ m.type \in types)
        F[n \in 0..Len(mm.models)] ==
            IF n = 0 THEN <<>>
            ELSE IF keep(mm.models[n]) THEN Append(F[n - 1], mm.models[n])
                 ELSE F[n - 1]
    IN  F[Len(mm.models)]

\* C13: download_models runs over exactly the plan's models that the type
\* filter keeps (every model without filter; with a filter those whose type
\* is a member, none without type), one after the other in plan order, and
\* when it returns it has counted each of them once; no step of the phases
\* changes the ModelManifest.
ThmC13 ==
    /\ [](InModels
           => /\ dm.items = KeptC13
              /\ Len(dm.results) <= Len(dm.items)
              /\ pc = "dm_loop"
                 => /\ dm.i = Len(dm.results) + 1
                    /\ dm.success_count + dm.fail_count = Len(dm.results)
              /\ pc \in {"icn_begin", "main_exit", "exit"}
                 => /\ Len(dm.results) = Len(dm.items)
                    /\ dm.total_success + dm.total_fail = Len(KeptC13))
    /\ [][pc \notin {"lm_loop", "am_models", "am_nodes", "am_return"}
           => mm' = mm]_vars

\* A run with a type filter over a plan of two models, one of the type of
\* the filter and one without type, has processed the first alone.
WitC13 ==
    /\ InModels
    /\ pc \in {"main_exit", "exit"}
    /\ dm.args.types # <<>>
    /\ Len(mm.models) = 2
    /\ \E i \in 1..2 : mm.models[i].type = None
    /\ Len(dm.items) = 1
    /\ dm.total_success + dm.total_fail = 1

\* The failures of the phases that ran: the transfers that returned
\* failure and the entries without key.
FailuresOfPhases == dm.failedCalls + NoSource

\* C14: a run that is not --list and comes to main's sys.exit has run the
\* models phase unless --nodes-only and the nodes phase (full variant)
\* unless --models-only, and its exit code is 0 when the failures of the
\* phases that ran are none and 1 otherwise; the entries of a phase that
\* did not run count for nothing.  A run ended by an exception has status 1.
InvC14 ==
    /\ (pc = "exit" /\ ~dm.args.list)
       => /\ "models" \in dm.phases <=> ~dm.args.nodes_only
          /\ "nodes" \in dm.phases <=> (variant = "full" /\ ~dm.args.models_only)
          /\ dm.total_fail = FailuresOfPhases
          /\ dm.exit_code = IF FailuresOfPhases = 0 THEN 0 ELSE 1
    /\ pc = "aborted" => dm.exit_code = 1

\* A real --nodes-only run whose manifest holds a model without url and a
\* node that was cloned: the models phase did not run and the exit code is 0.
WitC14 ==
    /\ pc = "exit"
    /\ ~dm.args.list /\ ~dm.args.dry_run
    /\ dm.args.nodes_only
    /\ \E i \in DOMAIN mm.models : Falsy(mm.models[i].url)
    /\ dm.total_success = 1
    /\ dm.exit_code = 0

\* install_custom_nodes is at a node with repo in a real run: clone_repo
\* is about to be called on the node's destination.
AtClone ==
    /\ pc = "icn_loop" /\ dm.i <= Len(dm.items)
    /\ ~Falsy(dm.items[dm.i].repo)
    /\ ~dm.args.dry_run

CloneStepC16 ==
    AtClone
    => LET dest == NodeDest(dm.items[dm.i]) IN
       /\ dm'.clone.destAtCall = fs[dest]
       /\ fs[dest] # Absent
          => /\ fs' = fs
             /\ ~dm'.clone.invoked
             /\ dm'.clone.result
             /\ dm'.success_count = dm.success_count + 1
       /\ (fs[dest] = Absent /\ ~env.faults) => dm'.clone.invoked
       /\ dm'.clone.result <=> dm'.success_count = dm.success_count + 1
       /\ ~dm'.clone.result <=> dm'.fail_count = dm.fail_count + 1

\* C16: clone_repo invokes git only when the destination does not exist; on
\* an existing destination it returns True without invoking git and leaves
\* the filesystem as it is; when git is invoked it returns True exactly
\* when git's exit code is 0; and the runner counts the entry accordingly.
ThmC16 ==
    /\ [][CloneStepC16]_vars
    /\ [](dm.clone.invoked
           => /\ dm.clone.destAtCall = Absent
              /\ dm.clone.result <=> dm.clone.exit = 0)
    /\ [](dm.clone.destAtCall # Absent
           => dm.clone.result /\ ~dm.clone.invoked)

\* git was invoked on an absent destination, ended with a non-zero exit
\* code, and the node was counted failed.
WitC16 ==
    /\ pc = "exit"
    /\ dm.clone.invoked
    /\ dm.clone.destAtCall = Absent
    /\ dm.clone.exit # 0
    /\ ~dm.clone.result
    /\ dm.total_fail >= 1
    /\ dm.exit_code = 1

\* The plan is one a merge can give: every model has a url and no two
\* urls are equal after lowercasing.
MergedPlanC17 ==
    /\ \A i \in DOMAIN mm.models : ~Falsy(mm.models[i].url)
    /\ NoDuplicateKeys("model", mm.models)

\* C17 (as claimed): when download_models has returned from a real run over
\* a merged plan, every entry it counted succeeded that declares a sha256
\* has a destination file, and the file's digest is that sha256.
ClaimC17 ==
    (/\ InModels
     /\ pc \in {"icn_begin", "main_exit", "exit"}
     /\ ~dm.args.dry_run
     /\ MergedPlanC17)
    => \A i \in DOMAIN dm.results :
          (dm.results[i] /\ ~Falsy(dm.items[i].sha256))
          => /\ fs[ModelDest(dm.items[i])] # Absent
             /\ Sha256(fs[ModelDest(dm.items[i])]) = dm.items[i].sha256

====
